---- MODULE Spec2Model ----
(***************************************************************************)
(* ReportProcessor of the cancellations-sop repository: the report-type    *)
(* classifier (detect_report_type, in its two versions), validate_report,  *)
(* the summarizers process_rpt600 and process_rpt908,                      *)
(* execute_sop_workflow with its processing log, save_processed_data, and  *)
(* the batch loop of streamlit_app.main.                                   *)
(***************************************************************************)
EXTENDS Integers, Sequences, FiniteSets, TLC

VARIABLES
    app,                \* which module's ReportProcessor runs: "main" | "streamlit"
    df,                 \* the DataFrame the caller holds
    file,               \* the file the caller holds (argument of validate_report)
    processed_reports,  \* self.processed_reports
    ret,                \* what the last call returned
    calls,              \* the calls the last handler made, in order
    saved,              \* output directory: filename -> stored workbook
    clock,              \* the last reading of datetime.now(), in seconds
    op,                 \* the last operation called and its arguments
    successes,          \* how many execute_sop_workflow calls returned success
    writable,           \* whether the output directory can be written
    batch               \* the "Process All Files" run of streamlit_app.main

vars == <<app, df, file, processed_reports, ret, calls, saved, clock, op,
          successes, writable, batch>>

(***************************************************************************)
(* Bounds                                                                  *)
(***************************************************************************)
MaxCols == 5        \* most columns of a DataFrame handed to the classifier
MaxLog == 2         \* most entries of processed_reports
MaxFiles == 2       \* most files of one batch
MaxRows == 2        \* most rows of a dataset handed to a summarizer on its own

(***************************************************************************)
(* Python str: lower(), the `in` operator on two strings, endswith.        *)
(***************************************************************************)
UpperChars == <<"A","B","C","D","E","F","G","H","I","J","K","L","M",
                "N","O","P","Q","R","S","T","U","V","W","X","Y","Z">>
LowerChars == <<"a","b","c","d","e","f","g","h","i","j","k","l","m",
                "n","o","p","q","r","s","t","u","v","w","x","y","z">>

LowerChar(ch) ==
    IF \E i \in 1..26 : UpperChars[i] = ch
    THEN LowerChars[CHOOSE i \in 1..26 : UpperChars[i] = ch]
    ELSE ch

RECURSIVE str_lower(_)
str_lower(s) ==
    IF Len(s) = 0 THEN ""
    ELSE LowerChar(SubSeq(s, 1, 1)) \o str_lower(SubSeq(s, 2, Len(s)))

\* Python's `sub in s` for strings
str_in(sub, s) ==
    \E i \in 1..(Len(s) - Len(sub) + 1) : SubSeq(s, i, i + Len(sub) - 1) = sub

\* Python's s.endswith(suffix)
str_endswith(s, suffix) ==
    /\ Len(s) >= Len(suffix)
    /\ SubSeq(s, Len(s) - Len(suffix) + 1, Len(s)) = suffix

(***************************************************************************)
(* Column labels.  pandas labels are any hashable: text, or (from a        *)
(* spreadsheet header holding a number) an int, which has no .lower().     *)
(***************************************************************************)
StrLabel(s) == [isstr |-> TRUE, text |-> s]
IntLabel(s) == [isstr |-> FALSE, text |-> s]

\* [col.lower() for col in df.columns]; raises AttributeError on a non-str label
\* faulty variant: the labels are compared as they are
lower_columns_keep_case(columns) ==
    [i \in 1..Len(columns) |-> columns[i].text]

lower_columns(columns) ==
    [i \in 1..Len(columns) |-> str_lower(columns[i].text)]
lower_raises(columns) ==
    \E i \in 1..Len(columns) : ~columns[i].isstr

RECURSIVE SumSeq(_)
SumSeq(s) == IF Len(s) = 0 THEN 0 ELSE Head(s) + SumSeq(Tail(s))

(***************************************************************************)
(* detect_report_type of src/app/main.py                                   *)
(***************************************************************************)
rpt600_indicators_main == <<"payee", "commission", "dealer", "fee">>
rpt908_indicators_main == <<"cancellation", "cancel", "termination", "refund">>

\* sum(1 for indicator in indicators if any(indicator in col for col in columns))
score_main(indicators, columns) ==
    SumSeq([k \in 1..Len(indicators) |->
              IF \E i \in 1..Len(columns) : str_in(indicators[k], columns[i])
              THEN 1 ELSE 0])

decide_main(rpt600_score, rpt908_score) ==
    IF rpt600_score > rpt908_score THEN "RPT600"
    ELSE IF rpt908_score > rpt600_score THEN "RPT908"
    ELSE "None"

rpt600_score_main(columns) == score_main(rpt600_indicators_main, lower_columns(columns))
rpt908_score_main(columns) == score_main(rpt908_indicators_main, lower_columns(columns))

detect_report_type_main(columns) ==
    IF lower_raises(columns) THEN "raise"
    ELSE decide_main(rpt600_score_main(columns), rpt908_score_main(columns))

(***************************************************************************)
(* detect_report_type of streamlit_app.py                                  *)
(***************************************************************************)
rpt600_indicators_streamlit ==
    <<"payee", "commission", "dealer", "fee", "amount", "payment",
      "earnings", "compensation", "bonus", "incentive", "revenue",
      "payee number", "dealer number", "agent", "representative">>
rpt908_indicators_streamlit ==
    <<"cancellation", "cancel", "termination", "refund", "contract",
      "policy", "agreement", "discontinuation", "cessation", "end date",
      "cancellation reason", "termination reason", "refund amount",
      "cancellation date", "termination date">>

\* for col in columns: for indicator in indicators:
\*     if indicator in col or col in indicator: score += 1
base_score_streamlit(indicators, columns) ==
    SumSeq([i \in 1..Len(columns) |->
              SumSeq([k \in 1..Len(indicators) |->
                        IF str_in(indicators[k], columns[i])
                           \/ str_in(columns[i], indicators[k])
                        THEN 1 ELSE 0])])

\* faulty variant: the bonus is added for every column containing the term
bonus_streamlit_per_column(term, columns) ==
    2 * Cardinality({i \in 1..Len(columns) : str_in(term, columns[i])})

\* if any(term in col for col in columns): score += 2
bonus_streamlit(term, columns) ==
    IF \E i \in 1..Len(columns) : str_in(term, columns[i]) THEN 2 ELSE 0

\* faulty variant: the "payee" bonus is added outside its if
rpt600_score_streamlit_bonus(columns) ==
    LET cols == lower_columns(columns) IN
    base_score_streamlit(rpt600_indicators_streamlit, cols)
      + 2 + bonus_streamlit("commission", cols)

rpt600_score_streamlit(columns) ==
    LET cols == lower_columns(columns) IN
    base_score_streamlit(rpt600_indicators_streamlit, cols)
      + bonus_streamlit("payee", cols) + bonus_streamlit("commission", cols)

rpt908_score_streamlit(columns) ==
    LET cols == lower_columns(columns) IN
    base_score_streamlit(rpt908_indicators_streamlit, cols)
      + bonus_streamlit("cancellation", cols) + bonus_streamlit("refund", cols)

\* faulty variant: a tie is broken toward RPT600
decide_streamlit_tie(rpt600_score, rpt908_score) ==
    IF rpt600_score >= rpt908_score /\ rpt600_score >= 1 THEN "RPT600"
    ELSE IF rpt908_score > rpt600_score /\ rpt908_score >= 1 THEN "RPT908"
    ELSE "None"

decide_streamlit(rpt600_score, rpt908_score) ==
    IF rpt600_score > rpt908_score /\ rpt600_score >= 1 THEN "RPT600"
    ELSE IF rpt908_score > rpt600_score /\ rpt908_score >= 1 THEN "RPT908"
    ELSE "None"

detect_report_type_streamlit(columns) ==
    IF lower_raises(columns) THEN "raise"
    ELSE decide_streamlit(rpt600_score_streamlit(columns),
                          rpt908_score_streamlit(columns))

\* the classifier of the module that runs
detect_report_type(a, columns) ==
    IF a = "main" THEN detect_report_type_main(columns)
    ELSE detect_report_type_streamlit(columns)
rpt600_score(a, columns) ==
    IF a = "main" THEN rpt600_score_main(columns) ELSE rpt600_score_streamlit(columns)
rpt908_score(a, columns) ==
    IF a = "main" THEN rpt908_score_main(columns) ELSE rpt908_score_streamlit(columns)

(***************************************************************************)
(* Cells, DataFrames and files                                             *)
(***************************************************************************)
Num(n) == [kind |-> "num", num |-> n, text |-> ""]
Str(t) == [kind |-> "str", num |-> 0, text |-> t]

Labels(names) == [i \in 1..Len(names) |-> StrLabel(names[i])]

\* len(df)
len(d) == Len(d.rows)
\* df.empty: some axis has length 0
empty(d) == Len(d.rows) = 0 \/ Len(d.columns) = 0

\* the RPT600 fixture of tests/test_main.py
sample_rpt600_data ==
    [columns |-> Labels(<<"Payee", "Dealer", "Commission", "Date">>),
     rows |-> << <<Str("ASC001"), Str("DLR001"), Num(100), Str("2024-10-01")>>,
                 <<Str("ASC002"), Str("DLR002"), Num(150), Str("2024-10-02")>> >>]
\* the RPT908 fixture of tests/conftest.py
sample_rpt908_data ==
    [columns |-> Labels(<<"Contract", "Cancellation_Reason", "Refund_Amount",
                          "Date", "Dealer", "Product_Type">>),
     rows |-> << <<Str("CTR001"), Str("Customer Request"), Num(50),
                   Str("2024-10-01"), Str("DLR001"), Str("Warranty")>>,
                 <<Str("CTR002"), Str("Non-Payment"), Num(75),
                   Str("2024-10-02"), Str("DLR002"), Str("Service")>>,
                 <<Str("CTR003"), Str("Service Issue"), Num(100),
                   Str("2024-10-03"), Str("DLR003"), Str("Warranty")>> >>]
\* further frames: a header without rows, unrecognised columns, a numeric
\* header cell (an int label), no columns at all
header_only_rpt908 ==
    [columns |-> Labels(<<"Cancellation_Reason", "Refund_Amount">>), rows |-> <<>>]
unknown_columns ==
    [columns |-> Labels(<<"State", "Product_Type">>),
     rows |-> << <<Str("AZ"), Str("Warranty")>> >>]
int_label_frame ==
    [columns |-> <<StrLabel("Payee"), IntLabel("2024")>>,
     rows |-> << <<Str("ASC001"), Num(100)>> >>]
EmptyFrame == [columns |-> <<>>, rows |-> <<>>]

\* the frames handed to the processor's methods
DataFrames == {sample_rpt600_data, sample_rpt908_data, int_label_frame}

\* a file: its path, the format of its bytes, and the table they hold
File(path, format, content, d) ==
    [path |-> path, format |-> format, content |-> content, table |-> d]
NoFile == File("", "csv", "missing", EmptyFrame)

Files ==
    {File("report.csv", "csv", "table", d) :
         d \in DataFrames \cup {header_only_rpt908, unknown_columns}}
    \cup {File("report.xlsx", "xlsx", "table", d) :
              d \in {sample_rpt600_data, int_label_frame, EmptyFrame}}
    \cup {File("nonexistent_file.csv", "csv", "missing", EmptyFrame),
          File("empty.csv", "csv", "zero_bytes", EmptyFrame),
          File("report.txt", "csv", "table", sample_rpt600_data),
          File("renamed.csv", "xlsx", "table", sample_rpt600_data)}

\* faulty variant: zero bytes are read as a frame without columns
read_csv_zero_bytes_empty(f) ==
    IF f.content = "zero_bytes" /\ f.format = "csv"
    THEN [raised |-> FALSE, df |-> EmptyFrame]
    ELSE IF f.content # "table" \/ f.format # "csv" \/ Len(f.table.columns) = 0
    THEN [raised |-> TRUE, df |-> EmptyFrame]
    ELSE [raised |-> FALSE,
          df |-> [columns |-> [i \in 1..Len(f.table.columns) |->
                                  StrLabel(f.table.columns[i].text)],
                  rows |-> f.table.rows]]

\* pd.read_csv: raises on a missing file, on zero bytes (no columns to parse)
\* and on bytes that are no text; every label it returns is a str
read_csv(f) ==
    IF f.content # "table" \/ f.format # "csv" \/ Len(f.table.columns) = 0
    THEN [raised |-> TRUE, df |-> EmptyFrame]
    ELSE [raised |-> FALSE,
          df |-> [columns |-> [i \in 1..Len(f.table.columns) |->
                                  StrLabel(f.table.columns[i].text)],
                  rows |-> f.table.rows]]

\* pd.read_excel: raises on a missing file and on bytes that are no workbook;
\* a numeric header cell becomes an int label, an empty sheet an empty frame
read_excel(f) ==
    IF f.content # "table" \/ f.format # "xlsx"
    THEN [raised |-> TRUE, df |-> EmptyFrame]
    ELSE [raised |-> FALSE, df |-> f.table]

(***************************************************************************)
(* ReportProcessor.validate_report                                         *)
(***************************************************************************)
Invalid(error) ==
    [kind |-> "validation", valid |-> FALSE, error |-> error,
     report_type |-> "None", row_count |-> 0, columns |-> <<>>]
\* faulty variant: row_count is taken from the column axis
Valid_column_count(report_type, d) ==
    [kind |-> "validation", valid |-> TRUE, error |-> "",
     report_type |-> report_type, row_count |-> Len(d.columns), columns |-> d.columns]
Valid(report_type, d) ==
    [kind |-> "validation", valid |-> TRUE, error |-> "",
     report_type |-> report_type, row_count |-> len(d), columns |-> d.columns]

UnsupportedFormat == "Unsupported file format. Please upload CSV or Excel files."
ErrorReadingFile == "Error reading file: "

\* faulty variant: the classifier runs before the emptiness check
validate_frame_detect_first(a, reader, parsed) ==
    IF parsed.raised
    THEN [ret |-> Invalid(ErrorReadingFile \o "cannot read"), calls |-> <<reader>>]
    ELSE LET report_type == detect_report_type(a, parsed.df.columns)
             made == <<reader, "detect_report_type", "df.empty">>
         IN  IF report_type = "raise"
             THEN [ret |-> Invalid(ErrorReadingFile \o "no attribute 'lower'"),
                   calls |-> <<reader, "detect_report_type">>]
             ELSE IF report_type = "None"
             THEN [ret |-> Invalid("Could not determine report type"),
                   calls |-> <<reader, "detect_report_type">>]
             ELSE IF empty(parsed.df)
             THEN [ret |-> Invalid("File appears to be empty"), calls |-> made]
             ELSE [ret |-> Valid(report_type, parsed.df), calls |-> made]

\* the body of validate_report once the file has been read
validate_frame(a, reader, parsed) ==
    IF parsed.raised
    THEN [ret |-> Invalid(ErrorReadingFile \o "cannot read"), calls |-> <<reader>>]
    ELSE IF empty(parsed.df)
    THEN [ret |-> Invalid("File appears to be empty"),
          calls |-> <<reader, "df.empty">>]
    ELSE LET report_type == detect_report_type(a, parsed.df.columns)
             made == <<reader, "df.empty", "detect_report_type">>
         IN  IF report_type = "raise"
             THEN [ret |-> Invalid(ErrorReadingFile \o "no attribute 'lower'"),
                   calls |-> made]
             ELSE IF report_type = "None"
             THEN [ret |-> Invalid("Could not determine report type"),
                   calls |-> made]
             ELSE [ret |-> Valid(report_type, parsed.df), calls |-> made]

\* faulty variant: every path that is no .csv is handed to read_excel
validate_report_else_excel(a, f) ==
    IF str_endswith(f.path, ".csv") THEN validate_frame(a, "read_csv", read_csv(f))
    ELSE validate_frame(a, "read_excel", read_excel(f))

validate_report(a, f) ==
    IF str_endswith(f.path, ".csv") THEN validate_frame(a, "read_csv", read_csv(f))
    ELSE IF str_endswith(f.path, ".xlsx")
    THEN validate_frame(a, "read_excel", read_excel(f))
    ELSE [ret |-> Invalid(UnsupportedFormat), calls |-> <<>>]

(***************************************************************************)
(* pandas operations used by the summarizers.  A missing cell is NaN; a    *)
(* column of numbers and NaN has a numeric dtype, any other column holds   *)
(* Python objects.                                                         *)
(***************************************************************************)
NaN == [kind |-> "nan", num |-> 0, text |-> ""]
\* Python's None as a summary value
NoneValue == [kind |-> "none", num |-> 0, text |-> ""]

\* name in df.columns
has_column(d, name) == \E i \in 1..Len(d.columns) : d.columns[i] = StrLabel(name)
\* df[name]: the cells of the column with that label, top to bottom
column(d, name) ==
    LET i == CHOOSE i \in 1..Len(d.columns) : d.columns[i] = StrLabel(name)
    IN  [r \in 1..Len(d.rows) |-> d.rows[r][i]]

\* Series.nunique(): the distinct values, NaN dropped
nunique(cells) == Cardinality({cells[r] : r \in 1..Len(cells)} \ {NaN})

\* faulty variant: NaN is counted like a value
value_counts_keepna(cells) ==
    [v \in {cells[r] : r \in 1..Len(cells)} |->
        Cardinality({r \in 1..Len(cells) : cells[r] = v})]

\* Series.value_counts().to_dict(): each distinct value, NaN dropped, with
\* the number of cells holding it
value_counts(cells) ==
    [v \in {cells[r] : r \in 1..Len(cells)} \ {NaN} |->
        Cardinality({r \in 1..Len(cells) : cells[r] = v})]

RECURSIVE concat(_)
concat(cells) ==
    IF Len(cells) = 0 THEN "" ELSE Head(cells).text \o concat(Tail(cells))

\* Series.sum(): a numeric column adds its numbers and skips NaN; a column
\* of str objects is reduced with + as well, which concatenates; a column
\* mixing str with numbers or NaN raises TypeError
sum(cells) ==
    LET kinds == {cells[r].kind : r \in 1..Len(cells)}
    IN  IF kinds \subseteq {"num", "nan"}
        THEN [raised |-> FALSE,
              value |-> Num(SumSeq([r \in 1..Len(cells) |-> cells[r].num]))]
        ELSE IF kinds = {"str"}
        THEN [raised |-> FALSE, value |-> Str(concat(cells))]
        ELSE [raised |-> TRUE, value |-> NaN]

\* the calendar days the model tells apart, in order; a Timestamp is a
\* position in this list and NaT is 0
Days == <<"1970-01-01", "2024-10-01", "2024-10-02", "2024-10-03">>
NaT == 0
\* pd.to_datetime(cell, errors="coerce"): an ISO date string parses, a number
\* counts nanoseconds from the epoch (every amount of the model stays within
\* its first day), anything else is coerced to NaT
to_datetime(cell) ==
    IF cell.kind = "str" /\ \E i \in 1..Len(Days) : Days[i] = cell.text
    THEN CHOOSE i \in 1..Len(Days) : Days[i] = cell.text
    ELSE IF cell.kind = "num" THEN 1
    ELSE NaT
\* Timestamp.strftime('%Y-%m-%d')
strftime(t) == Days[t]

\* [col for col in df.columns if any keyword in col.lower()], as positions
matching_cols(d, keywords) ==
    LET lowered == lower_columns(d.columns)
    IN  {i \in 1..Len(d.columns) :
            \E k \in 1..Len(keywords) : str_in(keywords[k], lowered[i])}
\* df[cols[0]]
first_col(d, cols) ==
    LET i == CHOOSE i \in cols : \A j \in cols : i <= j
    IN  [r \in 1..Len(d.rows) |-> d.rows[r][i]]

(***************************************************************************)
(* ReportProcessor.process_rpt600 / process_rpt908.  The first col.lower() *)
(* of the column scans raises on a non-str label, inside the outer try     *)
(* only.                                                                   *)
(***************************************************************************)
Success(summary) ==
    [kind |-> "result", success |-> TRUE, summary |-> summary, error |-> ""]
Failure(error) ==
    [kind |-> "result", success |-> FALSE, summary |-> <<>>, error |-> error]

\* faulty variant: the fallback column is preferred
unique_count_fallback_first(d, preferred, fallback) ==
    IF has_column(d, fallback) THEN nunique(column(d, fallback))
    ELSE IF has_column(d, preferred) THEN nunique(column(d, preferred))
    ELSE 0

\* df.get(preferred, df.get(fallback, pd.Series())).nunique() if either
\* label is a column, else 0
unique_count(d, preferred, fallback) ==
    IF has_column(d, preferred) THEN nunique(column(d, preferred))
    ELSE IF has_column(d, fallback) THEN nunique(column(d, fallback))
    ELSE 0

\* faulty variant: one NaT makes min() NaT, so any unparseable cell gives None
date_range_nat_propagates(d) ==
    LET date_cols == matching_cols(d, <<"date", "time">>)
    IN  IF date_cols = {} THEN NoneValue
        ELSE LET cells == first_col(d, date_cols)
                 dates == {to_datetime(cells[r]) : r \in 1..Len(cells)}
             IN  IF dates = {} \/ NaT \in dates THEN NoneValue
                 ELSE LET min == CHOOSE t \in dates : \A u \in dates : t <= u
                          max == CHOOSE t \in dates : \A u \in dates : t >= u
                      IN  Str(strftime(min) \o " to " \o strftime(max))

\* the date_range of process_rpt600: min() and max() skip NaT, and
\* NaT.strftime raises, which the bare except swallows
date_range(d) ==
    LET date_cols == matching_cols(d, <<"date", "time">>)
    IN  IF date_cols = {} THEN NoneValue
        ELSE LET cells == first_col(d, date_cols)
                 dates == {to_datetime(cells[r]) : r \in 1..Len(cells)} \ {NaT}
             IN  IF dates = {} THEN NoneValue
                 ELSE LET min == CHOOSE t \in dates : \A u \in dates : t <= u
                          max == CHOOSE t \in dates : \A u \in dates : t >= u
                      IN  Str(strftime(min) \o " to " \o strftime(max))

\* the total of the first column matching a keyword; a raising sum leaves
\* the initial 0
total(d, keywords) ==
    LET cols == matching_cols(d, keywords)
    IN  IF cols = {} THEN Num(0)
        ELSE LET s == sum(first_col(d, cols))
             IN  IF s.raised THEN Num(0) ELSE s.value

\* cancellation_reasons of process_rpt908
cancellation_reasons(d) ==
    LET reason_cols == matching_cols(d, <<"reason", "cause">>)
    IN  IF reason_cols = {} THEN [v \in {} |-> 0]
        ELSE value_counts(first_col(d, reason_cols))

rpt600_summary(d) ==
    [total_records |-> len(d),
     unique_payees |-> unique_count(d, "Payee", "Payee Number"),
     unique_dealers |-> unique_count(d, "Dealer", "Dealer Number"),
     date_range |-> date_range(d),
     total_amount |-> total(d, <<"amount", "commission", "fee">>)]

\* date_range is initialised to None and never assigned again
rpt908_summary(d) ==
    [total_records |-> len(d),
     cancellation_reasons |-> cancellation_reasons(d),
     total_refund_amount |-> total(d, <<"refund", "amount">>),
     date_range |-> NoneValue]

\* the summaries of the frames of DataFrames, computed once
Rpt600Summaries ==
    [d \in {f \in DataFrames : ~lower_raises(f.columns)} |-> rpt600_summary(d)]
Rpt908Summaries ==
    [d \in {f \in DataFrames : ~lower_raises(f.columns)} |-> rpt908_summary(d)]

\* faulty variant: the row count includes the entries of the log
process_rpt600_counts_log(d) ==
    IF lower_raises(d.columns) THEN Failure("no attribute 'lower'")
    ELSE Success([rpt600_summary(d) EXCEPT
                     !.total_records = len(d) + Len(processed_reports)])

process_rpt600(d) ==
    IF lower_raises(d.columns) THEN Failure("no attribute 'lower'")
    ELSE IF d \in DOMAIN Rpt600Summaries THEN Success(Rpt600Summaries[d])
    ELSE Success(rpt600_summary(d))

process_rpt908(d) ==
    IF lower_raises(d.columns) THEN Failure("no attribute 'lower'")
    ELSE IF d \in DOMAIN Rpt908Summaries THEN Success(Rpt908Summaries[d])
    ELSE Success(rpt908_summary(d))

(***************************************************************************)
(* ReportProcessor.save_processed_data                                     *)
(***************************************************************************)
\* f"{report_type}_{timestamp}.xlsx", the timestamp to the second
filename(report_type, now) == <<report_type, now>>

Workbook(d, summary, log) ==
    [Raw_Data |-> d, Summary |-> summary, Processing_Log |-> log]

\* the output directory after the write of one workbook (a file of the same
\* name is replaced)
write(dir, name, workbook) ==
    [n \in DOMAIN dir \cup {name} |-> IF n = name THEN workbook ELSE dir[n]]

\* faulty variant: no try/except around the write
save_processed_data_uncaught(dir, log, report_type, d, result, now, io_ok) ==
    IF io_ok /\ result.success
    THEN [raised |-> FALSE, calls |-> <<"save_processed_data", "logger.info">>,
          saved |-> write(dir, filename(report_type, now),
                          Workbook(d, result.summary, log))]
    ELSE [raised |-> TRUE, calls |-> <<"save_processed_data">>, saved |-> dir]

\* io_ok: the directory could be made and the workbook written.  Every
\* exception is caught and logged, so the caller never sees one.
save_processed_data(dir, log, report_type, d, result, now, io_ok) ==
    IF io_ok /\ result.success
    THEN [raised |-> FALSE, calls |-> <<"save_processed_data", "logger.info">>,
          saved |-> write(dir, filename(report_type, now),
                          Workbook(d, result.summary, log))]
    ELSE [raised |-> FALSE, calls |-> <<"save_processed_data", "logger.error">>,
          saved |-> dir]

(***************************************************************************)
(* ReportProcessor.execute_sop_workflow                                    *)
(***************************************************************************)
\* faulty variant: every type that is not RPT600 is processed as RPT908
dispatch_else_rpt908(report_type, d) ==
    IF report_type = "RPT600" THEN process_rpt600(d) ELSE process_rpt908(d)

\* the if / elif / else on report_type
dispatch(report_type, d) ==
    IF report_type = "RPT600" THEN process_rpt600(d)
    ELSE IF report_type = "RPT908" THEN process_rpt908(d)
    ELSE Failure("Unsupported report type: " \o report_type)

processor_of(report_type) ==
    IF report_type = "RPT600" THEN <<"process_rpt600">>
    ELSE IF report_type = "RPT908" THEN <<"process_rpt908">>
    ELSE <<>>

\* faulty variant: the row count is taken from the wrong axis
log_entry_columns(report_type, d, result, now) ==
    [timestamp |-> now, report_type |-> report_type,
     records_processed |-> Len(d.columns), status |-> "completed"]

\* the dict appended to processed_reports
log_entry(report_type, d, result, now) ==
    [timestamp |-> now, report_type |-> report_type,
     records_processed |-> result.summary.total_records, status |-> "completed"]

\* faulty variant: a report already in the log is not logged again
log_append_dedup(log, entry) ==
    IF \E i \in 1..Len(log) :
           /\ log[i].report_type = entry.report_type
           /\ log[i].records_processed = entry.records_processed
    THEN log ELSE Append(log, entry)

\* self.processed_reports.append(entry)
log_append(log, entry) == Append(log, entry)

\* faulty variant: the workbook is written before the entry is appended
log_and_save_reversed(log, dir, report_type, d, result, now, io_ok) ==
    LET written == save_processed_data(dir, log, report_type, d, result, now, io_ok)
    IN  [log |-> log_append(log, log_entry(report_type, d, result, now)),
         saved |-> written.saved, raised |-> written.raised,
         calls |-> written.calls \o <<"processed_reports.append">>]

\* the body of `if result["success"]`: append, then save (which sees the
\* log with the new entry); now is what datetime.now() reads
log_and_save(log, dir, report_type, d, result, now, io_ok) ==
    LET log1 == log_append(log, log_entry(report_type, d, result, now))
        written == save_processed_data(dir, log1, report_type, d, result, now, io_ok)
    IN  [log |-> log1, saved |-> written.saved, raised |-> written.raised,
         calls |-> <<"processed_reports.append">> \o written.calls]

\* returns what the call returns and what it leaves behind; an exception
\* that reaches the outer except becomes a failure result
execute_sop_workflow(log, dir, report_type, d, now, io_ok) ==
    LET result == dispatch(report_type, d) IN
    IF ~result.success
    THEN [ret |-> result, log |-> log, saved |-> dir,
          calls |-> processor_of(report_type)]
    ELSE LET done == log_and_save(log, dir, report_type, d, result, now, io_ok)
         IN  [ret |-> IF done.raised THEN Failure("cannot save") ELSE result,
              log |-> done.log, saved |-> done.saved,
              calls |-> processor_of(report_type) \o done.calls]

(***************************************************************************)
(* Initial values of the processor and its surroundings                    *)
(***************************************************************************)
NoReturn == [kind |-> "none"]
\* st.session_state.batch_processing is not set: no batch has been started
NoBatch == [pc |-> "idle", all_files |-> <<>>, i |-> 0, batch_results |-> <<>>,
            logged |-> 0, again |-> FALSE]

\* ReportProcessor.__init__ and an empty output directory
ProcessorInit ==
    /\ batch = NoBatch
    /\ processed_reports = <<>>
    /\ saved = <<>>
    /\ ret = NoReturn
    /\ calls = <<>>
    /\ clock = 0
    /\ op = [name |-> "__init__"]
    /\ successes = 0
    /\ writable = TRUE

(***************************************************************************)
(* The classifier on its own: every DataFrame of at most MaxCols columns   *)
(* drawn from ColumnPool, under both versions of detect_report_type.       *)
(***************************************************************************)
ColumnPool ==
    <<"Payee", "Commission", "Cancellation_Reason", "Refund_Amount",
      "Dealer", "Contract", "Date", "Reason", "Term", "Pay", "Number",
      "Deal", "State", "Product_Type", "Payee Number">>

RECURSIVE PickColumns(_, _)
\* the labels of ColumnPool at the positions in I, in pool order from position n on
PickColumns(I, n) ==
    IF n > Len(ColumnPool) THEN <<>>
    ELSE IF n \in I THEN <<StrLabel(ColumnPool[n])>> \o PickColumns(I, n + 1)
    ELSE PickColumns(I, n + 1)

ColumnChoices ==
    {I \in SUBSET (1..Len(ColumnPool)) : Cardinality(I) <= MaxCols}

ClassifyInit ==
    /\ app \in {"main", "streamlit"}
    /\ \E I \in ColumnChoices : df = [columns |-> PickColumns(I, 1), rows |-> <<>>]
    /\ file = NoFile
    /\ ProcessorInit

\* report_type = processor.detect_report_type(df)
DetectReportType(d) ==
    /\ ret' = [kind |-> "report_type", value |-> detect_report_type(app, d.columns)]
    /\ calls' = <<"detect_report_type">>
    /\ op' = [name |-> "detect_report_type"]
    /\ file' = NoFile
    /\ UNCHANGED <<app, batch, processed_reports, saved, clock, successes, writable>>

DetectHeld == DetectReportType(df) /\ UNCHANGED df

ClassifyNext == DetectHeld

SpecClassify == ClassifyInit /\ [][ClassifyNext]_vars

(***************************************************************************)
(* Claims about the classifier (checked under SpecClassify)                *)
(***************************************************************************)
Detected == op.name = "detect_report_type" /\ ret.kind = "report_type"

rpt600_indicators(a) ==
    IF a = "main" THEN rpt600_indicators_main ELSE rpt600_indicators_streamlit
rpt908_indicators(a) ==
    IF a = "main" THEN rpt908_indicators_main ELSE rpt908_indicators_streamlit

\* the label contains one of the keywords (case-insensitively)
ContainsKeyword(label, indicators) ==
    \E k \in 1..Len(indicators) : str_in(indicators[k], str_lower(label.text))

HasColumn(columns, name) ==
    \E i \in 1..Len(columns) : columns[i] = StrLabel(name)

\* C1: the result is RPT600 exactly when the payee score is strictly greater
\* than the cancellation score and at least 1, RPT908 exactly when the
\* cancellation score is strictly greater and at least 1, None otherwise;
\* equal nonzero scores give None.
C1_DecisionRule ==
    (Detected /\ ~lower_raises(df.columns)) =>
        LET p == rpt600_score(app, df.columns)
            c == rpt908_score(app, df.columns)
        IN  /\ (ret.value = "RPT600") <=> (p > c /\ p >= 1)
            /\ (ret.value = "RPT908") <=> (c > p /\ c >= 1)
            /\ (ret.value = "None") <=> (~(p > c /\ p >= 1) /\ ~(c > p /\ c >= 1))
            /\ (p = c /\ p # 0) => ret.value = "None"

C1_Witness ==
    /\ Detected /\ app = "streamlit"
    /\ rpt600_score(app, df.columns) = rpt908_score(app, df.columns)
    /\ rpt600_score(app, df.columns) >= 1
    /\ ret.value = "None"

\* C2: a column set containing "Payee" and "Commission" in which no column
\* contains a cancellation keyword is classified RPT600, whatever other
\* columns are present.
C2_PayeeCommission ==
    (/\ Detected
     /\ HasColumn(df.columns, "Payee") /\ HasColumn(df.columns, "Commission")
     /\ \A i \in 1..Len(df.columns) :
            ~ContainsKeyword(df.columns[i], rpt908_indicators(app)))
        => ret.value = "RPT600"

\* C3: a column set containing "Cancellation_Reason" and "Refund_Amount" in
\* which no other column contains a payee keyword is classified RPT908,
\* whatever other columns are present.
C3_CancellationRefund ==
    (/\ Detected
     /\ HasColumn(df.columns, "Cancellation_Reason")
     /\ HasColumn(df.columns, "Refund_Amount")
     /\ \A i \in 1..Len(df.columns) :
            df.columns[i] \notin {StrLabel("Cancellation_Reason"),
                                  StrLabel("Refund_Amount")}
              => ~ContainsKeyword(df.columns[i], rpt600_indicators(app)))
        => ret.value = "RPT908"

\* the matching rule of the module that runs, on one column and one indicator
Matches(a, indicator, label) ==
    \/ str_in(indicator, str_lower(label.text))
    \/ a = "streamlit" /\ str_in(str_lower(label.text), indicator)

ZeroMatches(a, columns) ==
    \A i \in 1..Len(columns) :
        /\ columns[i].isstr
        /\ \A k \in 1..Len(rpt600_indicators(a)) :
               ~Matches(a, rpt600_indicators(a)[k], columns[i])
        /\ \A k \in 1..Len(rpt908_indicators(a)) :
               ~Matches(a, rpt908_indicators(a)[k], columns[i])

\* C4: a column set with no match in either keyword family, the set of zero
\* columns included, is classified None.
C4_ZeroMatches ==
    (Detected /\ ZeroMatches(app, df.columns)) => ret.value = "None"

C4_Witness ==
    /\ Detected /\ app = "streamlit"
    /\ Len(df.columns) >= 2
    /\ ZeroMatches(app, df.columns)
    /\ ret.value = "None"

(***************************************************************************)
(* The processor in use: a caller calls the methods of one ReportProcessor *)
(* in any order, on any DataFrame of DataFrames and any file of Files.     *)
(* df and file hold the argument of the last call.                         *)
(***************************************************************************)
ReportTypes == {"RPT600", "RPT908", "None", "Unknown"}

Init ==
    /\ app \in {"main", "streamlit"}
    /\ df = EmptyFrame
    /\ file = NoFile
    /\ ProcessorInit

\* validate_report on each file of Files, computed once
Validated == [a \in {"main", "streamlit"} |-> [f \in Files |-> validate_report(a, f)]]

ValidateReport ==
    /\ \E f \in Files :
         /\ file' = f
         /\ ret' = Validated[app][f].ret
         /\ calls' = Validated[app][f].calls
    /\ df' = EmptyFrame
    /\ op' = [name |-> "validate_report"]
    /\ UNCHANGED <<app, batch, processed_reports, saved, clock, successes, writable>>

\* detect_report_type on each frame of DataFrames, computed once
DetectedFrames == [a \in {"main", "streamlit"} |->
                [d \in DataFrames |-> detect_report_type(a, d.columns)]]

\* faulty variant: the classifier lower-cases the labels of the frame itself
DetectFrame_lowers_labels ==
    /\ \E d \in DataFrames :
         /\ df' = [columns |-> [i \in 1..Len(d.columns) |->
                                  [isstr |-> d.columns[i].isstr,
                                   text |-> str_lower(d.columns[i].text)]],
                   rows |-> d.rows]
         /\ ret' = [kind |-> "report_type", value |-> DetectedFrames[app][d]]
    /\ calls' = <<"detect_report_type">>
    /\ op' = [name |-> "detect_report_type"]
    /\ file' = NoFile
    /\ UNCHANGED <<app, batch, processed_reports, saved, clock, successes, writable>>

DetectFrame ==
    /\ \E d \in DataFrames :
         /\ df' = d
         /\ ret' = [kind |-> "report_type", value |-> DetectedFrames[app][d]]
    /\ calls' = <<"detect_report_type">>
    /\ op' = [name |-> "detect_report_type"]
    /\ file' = NoFile
    /\ UNCHANGED <<app, batch, processed_reports, saved, clock, successes, writable>>

ProcessRpt600 ==
    /\ \E d \in DataFrames : df' = d /\ ret' = process_rpt600(d)
    /\ calls' = <<"process_rpt600">>
    /\ op' = [name |-> "process_rpt600"]
    /\ file' = NoFile
    /\ UNCHANGED <<app, batch, processed_reports, saved, clock, successes, writable>>

ProcessRpt908 ==
    /\ \E d \in DataFrames : df' = d /\ ret' = process_rpt908(d)
    /\ calls' = <<"process_rpt908">>
    /\ op' = [name |-> "process_rpt908"]
    /\ file' = NoFile
    /\ UNCHANGED <<app, batch, processed_reports, saved, clock, successes, writable>>

\* the disk fills up, loses its permissions, or recovers
DiskChanges ==
    /\ writable' = ~writable
    /\ UNCHANGED <<app, batch, df, file, processed_reports, ret, calls, saved, clock, op,
                   successes>>

\* now: datetime.now(), read only when the summarizer succeeded, in the
\* second of the previous reading or a later one
ExecuteSopWorkflow ==
    /\ Len(processed_reports) < MaxLog
    /\ successes < MaxLog
    /\ \E report_type \in ReportTypes, d \in DataFrames, now \in {clock, clock + 1} :
         /\ LET e == execute_sop_workflow(processed_reports, saved, report_type,
                                          d, now, writable)
            IN  /\ ret' = e.ret
                /\ processed_reports' = e.log
                /\ saved' = e.saved
                /\ calls' = e.calls
                /\ successes' = IF e.ret.success THEN successes + 1 ELSE successes
                /\ clock' = IF Len(e.log) > Len(processed_reports) THEN now ELSE clock
         /\ df' = d
         /\ op' = [name |-> "execute_sop_workflow", report_type |-> report_type]
    /\ file' = NoFile
    /\ UNCHANGED <<app, batch, writable>>

Next ==
    \/ DiskChanges
    \/ ValidateReport
    \/ DetectFrame
    \/ ProcessRpt600
    \/ ProcessRpt908
    \/ ExecuteSopWorkflow

Spec == Init /\ [][Next]_vars

(***************************************************************************)
(* The summarizers on their own: Init draws a dataset, the actions call    *)
(* process_rpt600 and process_rpt908 on it.                                *)
(***************************************************************************)
\* the headers of the datasets: preferred and fallback identifier columns,
\* amount columns before and after a text column, date and reason columns
SummaryHeaders ==
    {<<"Payee", "Payee Number">>, <<"Payee Number", "Dealer Number">>,
     <<"Dealer Number", "Dealer">>, <<"Contract", "Dealer">>,
     <<"Commission", "Fee_Category">>, <<"Fee_Category", "Commission">>,
     <<"Date", "Commission">>, <<"Update_Time", "Date">>, <<"Contract", "Date">>,
     <<"Cancellation_Reason", "Refund_Amount">>, <<"Cause", "Cancellation_Reason">>,
     <<"Refund_Status", "Refund_Amount">>, <<"Date", "Refund_Amount">>}

\* the values a column of each name may hold: identifiers, amounts with a
\* text entry, categories, dates with a text entry, reasons in two spellings
CellsOf(name) ==
    IF name \in {"Payee", "Payee Number", "Dealer", "Dealer Number", "Contract"}
    THEN {Str("ASC001"), Str("ASC002"), NaN}
    ELSE IF name \in {"Commission", "Refund_Amount"}
    THEN {Num(50), Num(100), Str("TBD"), NaN}
    ELSE IF name \in {"Fee_Category", "Refund_Status"}
    THEN {Str("Commission"), Str("Fee")}
    ELSE IF name \in {"Date", "Update_Time"}
    THEN {Str("2024-10-01"), Str("2024-10-03"), Str("TBD"), NaN}
    ELSE {Str("Customer Request"), Str("customer request"), NaN}

AllCells == UNION {CellsOf(h[i]) : h \in SummaryHeaders, i \in {1, 2}}
RowsOf(h) ==
    {row \in [1..Len(h) -> AllCells] : \A i \in 1..Len(h) : row[i] \in CellsOf(h[i])}

SummarizeInit ==
    /\ app \in {"main", "streamlit"}
    /\ \E h \in SummaryHeaders, n \in 0..MaxRows :
          \E rows \in [1..n -> RowsOf(h)] : df = [columns |-> Labels(h), rows |-> rows]
    /\ file = NoFile
    /\ ProcessorInit

\* result = processor.process_rpt600(df)
SummarizeRpt600 ==
    /\ ret' = process_rpt600(df)
    /\ calls' = <<"process_rpt600">>
    /\ op' = [name |-> "process_rpt600"]
    /\ UNCHANGED <<app, batch, df, file, processed_reports, saved, clock, successes,
                   writable>>

\* result = processor.process_rpt908(df)
SummarizeRpt908 ==
    /\ ret' = process_rpt908(df)
    /\ calls' = <<"process_rpt908">>
    /\ op' = [name |-> "process_rpt908"]
    /\ UNCHANGED <<app, batch, df, file, processed_reports, saved, clock, successes,
                   writable>>

SummarizeNext == SummarizeRpt600 \/ SummarizeRpt908

SpecSummarize == SummarizeInit /\ [][SummarizeNext]_vars

(***************************************************************************)
(* streamlit_app.main: "Process All Files".  batch.pc is "idle" until the  *)
(* button sets st.session_state.batch_processing, "running" inside the     *)
(* for loop over all_files, "done" once the results table is shown and     *)
(* "aborted" when an exception left the loop.  batch.i counts the files    *)
(* handled, batch.logged the length of the log when the run began, and     *)
(* batch.again says that the run was started by the click on "Process      *)
(* Again", whose button is reached only after the loop.                    *)
(***************************************************************************)
\* what st.file_uploader hands over: the uploaded file's name and bytes
Uploads ==
    {File("rpt600.csv", "csv", "table", sample_rpt600_data),
     File("rpt908.xlsx", "xlsx", "table", sample_rpt908_data),
     File("notes.csv", "csv", "table", unknown_columns),
     File("header.csv", "csv", "table", header_only_rpt908),
     File("empty.csv", "csv", "zero_bytes", EmptyFrame)}

\* temp_path = f"temp_batch_{uploaded_file.name}_{i}", holding the upload's bytes
temp_batch(u, i) ==
    File("temp_batch_" \o u.path \o "_" \o ToString(i), u.format, u.content, u.table)

\* validate_report on each temporary copy, computed once
ValidatedBatch ==
    [u \in Uploads |-> [i \in 0..MaxFiles |->
        validate_report("streamlit", temp_batch(u, i)).ret]]

\* one row of batch_results
Row(file_name, type, records, status, message) ==
    [File |-> file_name, Type |-> type, Records |-> records, Status |-> status,
     Message |-> message]

\* the button "Process All Files" with one or more uploaded files; the loop
\* starts with an empty batch_results
ProcessAllFiles ==
    /\ app = "streamlit"
    /\ batch.pc = "idle"
    /\ \E n \in 1..MaxFiles : \E all_files \in [1..n -> Uploads] :
          batch' = [pc |-> "running", all_files |-> all_files, i |-> 0,
                    batch_results |-> <<>>, logged |-> Len(processed_reports),
                    again |-> FALSE]
    /\ UNCHANGED <<app, df, file, processed_reports, ret, calls, saved, clock, op,
                   successes, writable>>

\* one iteration of the for loop.  The temporary copy is written before the
\* try block, so a failing write leaves the loop; inside the try block every
\* outcome appends one row.
BatchFile ==
    /\ batch.pc = "running"
    /\ \E temp_written \in BOOLEAN, now \in {clock, clock + 1} :
        LET u == batch.all_files[batch.i + 1]
            temp == temp_batch(u, batch.i)
            validation_result == ValidatedBatch[u][batch.i]
            parsed == IF str_endswith(u.path, ".csv") THEN read_csv(temp)
                      ELSE read_excel(temp)
            e == execute_sop_workflow(processed_reports, saved,
                                      validation_result.report_type, parsed.df,
                                      now, writable)
            row == IF ~validation_result.valid
                   THEN Row(u.path, "Unknown", 0, "Validation Failed",
                            validation_result.error)
                   ELSE IF parsed.raised
                   THEN Row(u.path, "Error", 0, "Error", "cannot read")
                   ELSE Row(u.path, validation_result.report_type,
                            validation_result.row_count,
                            IF e.ret.success THEN "Success" ELSE "Failed",
                            IF e.ret.success THEN "Processed successfully"
                            ELSE e.ret.error)
            executed == validation_result.valid /\ ~parsed.raised
        IN  IF ~temp_written
            THEN /\ batch' = [batch EXCEPT !.pc = "aborted"]
                 /\ UNCHANGED <<file, ret, calls, processed_reports, saved, clock,
                                successes>>
            ELSE /\ batch' = IF batch.i + 1 < Len(batch.all_files)
                            THEN [batch EXCEPT
                                    !.i = batch.i + 1,
                                    !.batch_results = Append(batch.batch_results, row)]
                            ELSE IF batch.again THEN NoBatch
                            ELSE [batch EXCEPT
                                    !.i = batch.i + 1,
                                    !.batch_results = Append(batch.batch_results, row),
                                    !.pc = "done"]
                 /\ file' = temp
                 /\ ret' = IF executed THEN e.ret ELSE validation_result
                 /\ calls' = IF executed THEN e.calls ELSE <<"validate_report">>
                 /\ processed_reports' = IF executed THEN e.log ELSE processed_reports
                 /\ saved' = IF executed THEN e.saved ELSE saved
                 /\ clock' = IF executed /\ Len(e.log) > Len(processed_reports)
                             THEN now ELSE clock
                 /\ successes' = IF executed /\ e.ret.success
                                 THEN successes + 1 ELSE successes
    /\ op' = [name |-> "batch_file"]
    /\ UNCHANGED <<app, df, writable>>

\* any later run of the script while batch_processing is still set goes
\* through the loop again with the same files
Rerun ==
    /\ batch.pc \in {"done", "aborted"}
    /\ batch' = [batch EXCEPT !.pc = "running", !.i = 0, !.batch_results = <<>>,
                              !.logged = Len(processed_reports), !.again = FALSE]
    /\ UNCHANGED <<app, df, file, processed_reports, ret, calls, saved, clock, op,
                   successes, writable>>

\* the button "Process Again": its click reruns the script, which goes
\* through the loop once more before it reaches the button and clears
\* batch_processing
ProcessAgain ==
    /\ batch.pc = "done"
    /\ batch' = [batch EXCEPT !.pc = "running", !.i = 0, !.batch_results = <<>>,
                              !.logged = Len(processed_reports), !.again = TRUE]
    /\ UNCHANGED <<app, df, file, processed_reports, ret, calls, saved, clock, op,
                   successes, writable>>

BatchInit ==
    /\ app = "streamlit"
    /\ df = EmptyFrame
    /\ file = NoFile
    /\ ProcessorInit

BatchNext == ProcessAllFiles \/ BatchFile \/ Rerun \/ ProcessAgain

SpecBatch == BatchInit /\ [][BatchNext]_vars

(***************************************************************************)
(* main() of both modules: one uploaded file shown and processed on its    *)
(* own.  src/app/main.py has a single uploader; streamlit_app.py goes      *)
(* through all_files, file i being handled as below, while no batch is     *)
(* active.                                                                 *)
(***************************************************************************)
\* temp_path = f"temp_{uploaded_file.name}" in src/app/main.py and
\* f"temp_{uploaded_file.name}_{i}" in streamlit_app.py
temp_single(a, u, i) ==
    File(IF a = "main" THEN "temp_" \o u.path
         ELSE "temp_" \o u.path \o "_" \o ToString(i),
         u.format, u.content, u.table)

\* validate_report on each temporary copy, computed once
ValidatedSingle ==
    [a \in {"main", "streamlit"} |-> [u \in Uploads |-> [i \in 0..MaxFiles |->
        validate_report(a, temp_single(a, u, i))]]]

\* what a run leaves behind when validation came before the workflow e
after_validation(e, d) ==
    [ret |-> e.ret, log |-> e.log, saved |-> e.saved,
     calls |-> <<"validate_report">> \o e.calls, df |-> d]

\* faulty variant: the click processes whatever parses, under the type the
\* classifier gives the parsed columns
process_upload_unvalidated(a, u, i, log, dir, now, io_ok) ==
    LET temp == temp_single(a, u, i)
        parsed == IF str_endswith(u.path, ".csv") THEN read_csv(temp)
                  ELSE read_excel(temp)
        e == execute_sop_workflow(log, dir, detect_report_type(a, parsed.df.columns),
                                  parsed.df, now, io_ok)
    IN  IF parsed.raised
        THEN [ret |-> Invalid("Error processing file"), log |-> log, saved |-> dir,
              calls |-> <<"validate_report">>, df |-> EmptyFrame]
        ELSE after_validation(e, parsed.df)

\* the script run after a click on the file's "Process" button: the file is
\* validated again, read with the reader its own name asks for, and handed
\* to execute_sop_workflow with the type validation detected
process_upload(a, u, i, log, dir, now, io_ok) ==
    LET temp == temp_single(a, u, i)
        validation_result == ValidatedSingle[a][u][i].ret
        parsed == IF str_endswith(u.path, ".csv") THEN read_csv(temp)
                  ELSE read_excel(temp)
        e == execute_sop_workflow(log, dir, validation_result.report_type,
                                  parsed.df, now, io_ok)
    IN  IF ~validation_result.valid
        THEN [ret |-> validation_result, log |-> log, saved |-> dir,
              calls |-> <<"validate_report">>, df |-> EmptyFrame]
        ELSE IF parsed.raised
        THEN [ret |-> Invalid("Error processing file"), log |-> log, saved |-> dir,
              calls |-> <<"validate_report">>, df |-> EmptyFrame]
        ELSE after_validation(e, parsed.df)

\* the positions a file can have in all_files
Positions(a) == IF a = "main" THEN {0} ELSE 0..(MaxFiles - 1)

\* a script run that shows the file: it is validated and its "Process"
\* button is offered when it is valid
ShowFile ==
    /\ batch.pc = "idle"
    /\ \E u \in Uploads, i \in Positions(app) :
          /\ file' = temp_single(app, u, i)
          /\ ret' = ValidatedSingle[app][u][i].ret
          /\ calls' = <<"validate_report">>
          /\ op' = [name |-> "show_file", upload |-> u, i |-> i]
    /\ df' = EmptyFrame
    /\ UNCHANGED <<app, batch, processed_reports, saved, clock, successes, writable>>

\* faulty variant: the button is offered for every shown file and its click
\* does not validate
ProcessFile_unvalidated ==
    /\ batch.pc = "idle"
    /\ op.name = "show_file"
    /\ Len(processed_reports) < MaxLog
    /\ \E now \in {clock, clock + 1} :
          \E r \in {process_upload_unvalidated(app, op.upload, op.i, processed_reports,
                                                saved, now, writable)} :
              /\ ret' = r.ret
              /\ processed_reports' = r.log
              /\ saved' = r.saved
              /\ calls' = r.calls
              /\ df' = r.df
              /\ clock' = IF Len(r.log) > Len(processed_reports) THEN now ELSE clock
              /\ successes' = IF Len(r.log) > Len(processed_reports)
                              THEN successes + 1 ELSE successes
    /\ op' = [name |-> "process_file", upload |-> op.upload, i |-> op.i]
    /\ UNCHANGED <<app, batch, file, writable>>

\* the click on the "Process" button of a file shown as valid
ProcessFile ==
    /\ batch.pc = "idle"
    /\ op.name = "show_file" /\ ret.valid
    /\ Len(processed_reports) < MaxLog
    /\ \E now \in {clock, clock + 1} :
          \E r \in {process_upload(app, op.upload, op.i, processed_reports, saved,
                                  now, writable)} :
              /\ ret' = r.ret
              /\ processed_reports' = r.log
              /\ saved' = r.saved
              /\ calls' = r.calls
              /\ df' = r.df
              /\ clock' = IF Len(r.log) > Len(processed_reports) THEN now ELSE clock
              /\ successes' = IF Len(r.log) > Len(processed_reports)
                              THEN successes + 1 ELSE successes
    /\ op' = [name |-> "process_file", upload |-> op.upload, i |-> op.i]
    /\ UNCHANGED <<app, batch, file, writable>>

MainInit ==
    /\ app \in {"main", "streamlit"}
    /\ df = EmptyFrame
    /\ file = NoFile
    /\ ProcessorInit

MainNext ==
    \/ ShowFile
    \/ ProcessFile
    \/ DiskChanges
    \/ ProcessAllFiles
    \/ BatchFile
    \/ Rerun
    \/ ProcessAgain

SpecMain == MainInit /\ [][MainNext]_vars

(***************************************************************************)
(* Claims about the workflow (checked under Spec)                          *)
(***************************************************************************)
Called(trace, name) == \E i \in 1..Len(trace) : trace[i] = name
IndexOf(trace, name) == CHOOSE i \in 1..Len(trace) : trace[i] = name

\* the step is a call of execute_sop_workflow (every other method leaves
\* another name in op, and the disk changes between calls)
ExecuteStep == op'.name = "execute_sop_workflow" /\ writable' = writable

\* C5: execute_sop_workflow on a report type other than RPT600 and RPT908
\* returns a failure carrying "Unsupported report type", leaves
\* processed_reports unchanged and does not call save_processed_data.
C5_UnsupportedType ==
    [][(ExecuteStep
          /\ op'.report_type \notin {"RPT600", "RPT908"})
        => /\ ret'.kind = "result" /\ ~ret'.success
           /\ str_in("Unsupported report type", ret'.error)
           /\ processed_reports' = processed_reports
           /\ saved' = saved
           /\ ~Called(calls', "save_processed_data")]_vars

C5_Witness ==
    /\ op.name = "execute_sop_workflow" /\ op.report_type = "None"
    /\ ~ret.success
    /\ Len(processed_reports) = 1
    /\ df = sample_rpt908_data

\* C6: a successful summarize appends exactly one entry and only afterwards
\* calls save_processed_data, so a workbook that gets written holds the log
\* with the current entry; a failed summarize appends nothing and never
\* calls save_processed_data.
C6_AppendThenSave ==
    [][ExecuteStep =>
         IF dispatch(op'.report_type, df').success
         THEN /\ Len(processed_reports') = Len(processed_reports) + 1
              /\ SubSeq(processed_reports', 1, Len(processed_reports))
                   = processed_reports
              /\ Called(calls', "processed_reports.append")
              /\ Called(calls', "save_processed_data")
              /\ IndexOf(calls', "processed_reports.append")
                   < IndexOf(calls', "save_processed_data")
              /\ writable =>
                   \E name \in DOMAIN saved' :
                       /\ name[1] = op'.report_type
                       /\ saved'[name].Processing_Log = processed_reports'
         ELSE /\ ~ret'.success
              /\ processed_reports' = processed_reports
              /\ saved' = saved
              /\ ~Called(calls', "save_processed_data")]_vars

C6_Witness ==
    /\ op.name = "execute_sop_workflow" /\ ret.success
    /\ Len(processed_reports) = 2
    /\ Called(calls, "logger.info")
    /\ \E name \in DOMAIN saved : saved[name].Processing_Log = processed_reports

\* C7: when save_processed_data fails, execute_sop_workflow still returns
\* the summarizer's successful result, summary unchanged, and the entry
\* appended for the run stays in the log.
C7_SaveFailure ==
    [][(ExecuteStep /\ ~writable
          /\ dispatch(op'.report_type, df').success)
        => /\ ret' = dispatch(op'.report_type, df')
           /\ ret'.success
           /\ ret'.summary.total_records = len(df')
           /\ Len(processed_reports') = Len(processed_reports) + 1
           /\ processed_reports'[Len(processed_reports')].report_type
                = op'.report_type
           /\ saved' = saved]_vars

C7_Witness ==
    /\ op.name = "execute_sop_workflow" /\ ret.success
    /\ Called(calls, "logger.error")
    /\ Len(processed_reports) = 1
    /\ DOMAIN saved = {}

IsPrefix(s, t) == Len(s) <= Len(t) /\ SubSeq(t, 1, Len(s)) = s

\* C8: processed_reports starts empty and is append-only under every
\* operation: no entry is removed, moved or changed, and a successful
\* execute_sop_workflow appends an entry even when the same dataset has
\* been processed before.
C8_AppendOnly ==
    /\ processed_reports = <<>>
    /\ [][/\ IsPrefix(processed_reports, processed_reports')
          /\ (ExecuteStep /\ dispatch(op'.report_type, df').success)
               => Len(processed_reports') = Len(processed_reports) + 1
          /\ ~ExecuteStep => processed_reports' = processed_reports]_vars

C8_Witness ==
    /\ Len(processed_reports) = 2
    /\ processed_reports[1].report_type = processed_reports[2].report_type
    /\ processed_reports[1].records_processed = processed_reports[2].records_processed
    /\ processed_reports[1].timestamp = processed_reports[2].timestamp

\* C9: the entry appended by execute_sop_workflow has the report type and
\* the row count of the call's arguments and status "completed", and the
\* log is as long as the number of calls that returned success.
C9_EntryContent ==
    /\ Len(processed_reports) = successes
    /\ \A i \in 1..Len(processed_reports) :
           /\ processed_reports[i].status = "completed"
           /\ processed_reports[i].report_type \in {"RPT600", "RPT908"}
    /\ (op.name = "execute_sop_workflow" /\ ret.success) =>
           /\ Len(processed_reports) >= 1
           /\ processed_reports[Len(processed_reports)].report_type = op.report_type
           /\ processed_reports[Len(processed_reports)].records_processed = len(df)

C9_Witness ==
    /\ op.name = "execute_sop_workflow" /\ ret.success
    /\ op.report_type = "RPT908" /\ df = sample_rpt908_data
    /\ Len(processed_reports) = 2
    /\ processed_reports[2].records_processed = 3
    /\ processed_reports[1].records_processed = 2

\* the file has a supported suffix and is read without error as a frame of
\* zero rows
ParsesToZeroRows(f) ==
    \/ str_endswith(f.path, ".csv") /\ ~read_csv(f).raised /\ len(read_csv(f).df) = 0
    \/ /\ ~str_endswith(f.path, ".csv") /\ str_endswith(f.path, ".xlsx")
       /\ ~read_excel(f).raised /\ len(read_excel(f).df) = 0

\* C10: validate_report on a file that parses to zero rows returns invalid
\* with the empty-dataset reason, and detect_report_type is not called.
C10_EmptyDataset ==
    (op.name = "validate_report" /\ ParsesToZeroRows(file)) =>
        /\ ret.kind = "validation" /\ ~ret.valid
        /\ ret.error = "File appears to be empty"
        /\ ~Called(calls, "detect_report_type")

C10_Witness ==
    /\ op.name = "validate_report"
    /\ file = File("report.csv", "csv", "table", header_only_rpt908)
    /\ ret.error = "File appears to be empty"

\* the path has one of the two supported suffixes
Supported(f) == str_endswith(f.path, ".csv") \/ str_endswith(f.path, ".xlsx")
\* what the reader chosen by the suffix returns
Parse(f) == IF str_endswith(f.path, ".csv") THEN read_csv(f) ELSE read_excel(f)
\* the classifier's outcome on each file's parsed columns, computed once
FileReportType ==
    [a \in {"main", "streamlit"} |->
        [f \in Files |-> detect_report_type(a, Parse(f).df.columns)]]

\* C11: validate_report returns valid = TRUE exactly when the path has a
\* supported suffix, the file parses, the frame has at least one row and the
\* classifier returns RPT600 or RPT908; then report_type is the classifier's
\* result, row_count the number of rows and columns the parsed column list
\* in order; in every other case valid = FALSE with a non-empty error.
C11_ValidExactly ==
    op.name = "validate_report" =>
        LET ok == /\ Supported(file)
                  /\ ~Parse(file).raised
                  /\ len(Parse(file).df) >= 1
                  /\ FileReportType[app][file] \in {"RPT600", "RPT908"}
        IN  /\ ret.kind = "validation"
            /\ ret.valid = ok
            /\ ok => /\ ret.report_type = FileReportType[app][file]
                     /\ ret.row_count = len(Parse(file).df)
                     /\ ret.columns = Parse(file).df.columns
            /\ ~ok => ret.error # ""

C11_Witness ==
    /\ op.name = "validate_report"
    /\ file = File("report.csv", "csv", "table", sample_rpt908_data)
    /\ ret.valid /\ ret.report_type = "RPT908" /\ ret.row_count = 3
    /\ Len(ret.columns) = 6

\* C12: when the classifier finds no type for a non-empty dataset, the
\* validation result carries the dataset's column names together with the
\* reason.
C12_UndeterminedColumns ==
    (/\ op.name = "validate_report"
     /\ Supported(file) /\ ~Parse(file).raised /\ ~empty(Parse(file).df)
     /\ FileReportType[app][file] = "None")
    => /\ ret.error = "Could not determine report type"
       /\ ret.columns = Parse(file).df.columns

(***************************************************************************)
(* Claims about the summarizers (checked under SpecSummarize)              *)
(***************************************************************************)
\* the cells of the column called name, and the distinct values among them
\* that are not missing
CellsUnder(name) ==
    LET i == CHOOSE i \in 1..Len(df.columns) : df.columns[i].text = name
    IN  {<<r, df.rows[r][i]>> : r \in 1..Len(df.rows)}
Distinct(name) == {rc[2] : rc \in {c \in CellsUnder(name) : c[2].kind # "nan"}}
Present(name) == \E i \in 1..Len(df.columns) : df.columns[i].text = name

\* C14: process_rpt600 reports unique_payees as the number of distinct
\* non-null values of "Payee" when that column is present, of "Payee Number"
\* only when "Payee" is absent, and 0 when neither is present; unique_dealers
\* follows the same rule over "Dealer" / "Dealer Number"; total_records is
\* the row count.
C14_DistinctCounts ==
    op.name = "process_rpt600" =>
        /\ ret.success
        /\ ret.summary.total_records = Len(df.rows)
        /\ ret.summary.unique_payees =
             IF Present("Payee") THEN Cardinality(Distinct("Payee"))
             ELSE IF Present("Payee Number") THEN Cardinality(Distinct("Payee Number"))
             ELSE 0
        /\ ret.summary.unique_dealers =
             IF Present("Dealer") THEN Cardinality(Distinct("Dealer"))
             ELSE IF Present("Dealer Number") THEN Cardinality(Distinct("Dealer Number"))
             ELSE 0

\* both identifier columns present with different distinct counts: the
\* preferred one decides
C14_Witness ==
    /\ op.name = "process_rpt600"
    /\ Present("Payee") /\ Present("Payee Number")
    /\ Cardinality(Distinct("Payee")) = 1
    /\ Cardinality(Distinct("Payee Number")) = 2
    /\ \E rc \in CellsUnder("Payee") : rc[2] = NaN
    /\ ret.summary.unique_payees = 1
    /\ ret.summary.unique_dealers = 0

\* the cells of the first column, in dataset order, whose lower-cased name
\* contains one of the keywords; no cells when there is no such column
Matching(keywords) ==
    {i \in 1..Len(df.columns) :
        \E k \in 1..Len(keywords) : str_in(keywords[k], str_lower(df.columns[i].text))}
FirstCells(keywords) ==
    IF Matching(keywords) = {} THEN <<>>
    ELSE LET i == CHOOSE i \in Matching(keywords) : \A j \in Matching(keywords) : i <= j
         IN  [r \in 1..Len(df.rows) |-> df.rows[r][i]]
\* the sum of the numeric cells, every other cell contributing 0
NumericSum(cells) ==
    SumSeq([r \in 1..Len(cells) |-> IF cells[r].kind = "num" THEN cells[r].num ELSE 0])
IsAmountTotal(value, keywords) ==
    /\ value.kind = "num"
    /\ \/ value.num = NumericSum(FirstCells(keywords))
       \/ sum(FirstCells(keywords)).raised /\ value.num = 0

\* C15: the amount total (total_amount over amount/commission/fee for
\* RPT600, total_refund_amount over refund/amount for RPT908) is always a
\* number: the sum of the numeric cells of the first matching column, the
\* other cells contributing 0, and 0 when there is no such column or the sum
\* fails.
C15_AmountTotal ==
    /\ op.name = "process_rpt600" =>
         IsAmountTotal(ret.summary.total_amount, <<"amount", "commission", "fee">>)
    /\ op.name = "process_rpt908" =>
         IsAmountTotal(ret.summary.total_refund_amount, <<"refund", "amount">>)

Digits == {"0", "1", "2", "3", "4", "5", "6", "7", "8", "9"}
\* the text has the form YYYY-MM-DD
IsCalendarDate(t) ==
    /\ Len(t) = 10
    /\ \A i \in 1..10 :
          IF i \in {5, 8} THEN SubSeq(t, i, i) = "-" ELSE SubSeq(t, i, i) \in Digits
\* the days the cells parse to, unparseable cells discarded
ParsedDays(cells) == {to_datetime(cells[r]) : r \in 1..Len(cells)} \ {NaT}

\* C16: in process_rpt600, date_range comes from the first column whose
\* lower-cased name contains "date" or "time": unparseable cells are
\* discarded; if a cell parses the value is "<min> to <max>" in YYYY-MM-DD
\* form with min <= max over the parsed cells; with no such column or no
\* parseable cell date_range stays None, and the call still succeeds.
C16_DateRange ==
    op.name = "process_rpt600" =>
        LET days == ParsedDays(FirstCells(<<"date", "time">>))
        IN  /\ ret.success
            /\ days = {} => ret.summary.date_range = NoneValue
            /\ days # {} =>
                 \E min \in days, max \in days :
                     /\ \A t \in days : min <= t /\ t <= max
                     /\ IsCalendarDate(Days[min]) /\ IsCalendarDate(Days[max])
                     /\ ret.summary.date_range = Str(Days[min] \o " to " \o Days[max])

\* the first date column holds a text entry and one date, the second
\* column another date
C16_Witness ==
    /\ op.name = "process_rpt600"
    /\ df.columns = Labels(<<"Update_Time", "Date">>)
    /\ df.rows = << <<Str("TBD"), Str("2024-10-01")>>,
                    <<Str("2024-10-03"), Str("2024-10-01")>> >>
    /\ ret.summary.date_range = Str("2024-10-03 to 2024-10-03")

\* C17: the RPT908 summary has a date range by the rule of process_rpt600:
\* for a dataset with a "Date" column holding at least one parseable date,
\* date_range is "<min> to <max>".
C17_CancellationDateRange ==
    (/\ op.name = "process_rpt908"
     /\ Present("Date") /\ Present("Refund_Amount")
     /\ ParsedDays(FirstCells(<<"date", "time">>)) # {})
    => LET days == ParsedDays(FirstCells(<<"date", "time">>))
       IN  \E min \in days, max \in days :
               /\ \A t \in days : min <= t /\ t <= max
               /\ ret.summary.date_range = Str(Days[min] \o " to " \o Days[max])

RECURSIVE SumCounts(_)
\* the counts of a frequency map added up
SumCounts(m) ==
    IF DOMAIN m = {} THEN 0
    ELSE LET v == CHOOSE v \in DOMAIN m : TRUE
         IN  m[v] + SumCounts([w \in DOMAIN m \ {v} |-> m[w]])

\* C18: process_rpt908 reports cancellation_reasons as the map from each
\* distinct (case-sensitive) value of the first column whose lower-cased
\* name contains "reason" or "cause" to its number of occurrences, the empty
\* map when there is no such column; the counts sum to the number of
\* non-null cells of that column and never exceed total_records.
C18_ReasonCounts ==
    op.name = "process_rpt908" =>
        LET cells == FirstCells(<<"reason", "cause">>)
            filled == {r \in 1..Len(cells) : cells[r].kind # "nan"}
            reasons == ret.summary.cancellation_reasons
        IN  /\ ret.success
            /\ DOMAIN reasons = {cells[r] : r \in filled}
            /\ \A v \in DOMAIN reasons :
                   reasons[v] = Cardinality({r \in filled : cells[r] = v})
            /\ SumCounts(reasons) = Cardinality(filled)
            /\ SumCounts(reasons) <= ret.summary.total_records

\* two spellings of one reason are two keys, a missing cell is none, and the
\* second reason column is not looked at
C18_Witness ==
    /\ op.name = "process_rpt908"
    /\ df.columns = Labels(<<"Cause", "Cancellation_Reason">>)
    /\ \E r \in 1..Len(df.rows) : df.rows[r] = <<NaN, Str("Customer Request")>>
    /\ \E r \in 1..Len(df.rows) : df.rows[r] = <<Str("customer request"), NaN>>
    /\ DOMAIN ret.summary.cancellation_reasons = {Str("customer request")}
    /\ ret.summary.total_records = 2

(***************************************************************************)
(* Claims about the summarizers inside the workflow (checked under Spec)   *)
(***************************************************************************)
\* the summarizer that the call recorded in o ran, directly or through
\* execute_sop_workflow
SummarizerOf(o) ==
    IF o.name = "process_rpt600" THEN "RPT600"
    ELSE IF o.name = "process_rpt908" THEN "RPT908"
    ELSE IF o.name = "execute_sop_workflow" /\ o.report_type \in {"RPT600", "RPT908"}
    THEN o.report_type
    ELSE "none"

C20_MissingColumns ==
    /\ (SummarizerOf(op) # "none" /\ ~empty(df)) =>
          /\ ret.kind = "result"
          /\ ret.success
    /\ (op.name = "process_rpt600" /\ ~empty(df)) =>
          /\ (~Present("Payee") /\ ~Present("Payee Number"))
                => ret.summary.unique_payees = 0
          /\ (~Present("Dealer") /\ ~Present("Dealer Number"))
                => ret.summary.unique_dealers = 0
          /\ Matching(<<"date", "time">>) = {} => ret.summary.date_range = NoneValue
          /\ Matching(<<"amount", "commission", "fee">>) = {}
                => ret.summary.total_amount = Num(0)
    /\ (op.name = "process_rpt908" /\ ~empty(df)) =>
          /\ Matching(<<"reason", "cause">>) = {}
                => DOMAIN ret.summary.cancellation_reasons = {}
          /\ Matching(<<"refund", "amount">>) = {}
                => ret.summary.total_refund_amount = Num(0)

(***************************************************************************)
(* Claims about batch processing (checked under SpecBatch)                 *)
(***************************************************************************)
\* whether validate_report accepts each upload under its own name
ValidOnItsOwn == [u \in Uploads |-> validate_report("streamlit", u).ret.valid]

\* C13: a batch of N files ends with exactly one result row per file in
\* upload order, no failure of one file stops the loop, and every file that
\* is valid on its own is logged once in the run.
C13_BatchIsolation ==
    /\ batch.pc # "aborted"
    /\ batch.pc = "done" =>
          /\ Len(batch.batch_results) = Len(batch.all_files)
          /\ \A k \in 1..Len(batch.all_files) :
                batch.batch_results[k].File = batch.all_files[k].path
          /\ Len(processed_reports) - batch.logged
               = Cardinality({k \in 1..Len(batch.all_files) :
                                 ValidOnItsOwn[batch.all_files[k]]})

(***************************************************************************)
(* Further claims about validate_report (checked under Spec)               *)
(***************************************************************************)
\* the file is missing, zero bytes long, or its bytes are not of the format
\* its suffix announces
Unreadable(f) ==
    \/ f.content \in {"missing", "zero_bytes"}
    \/ str_endswith(f.path, ".csv") /\ f.format # "csv"
    \/ str_endswith(f.path, ".xlsx") /\ f.format # "xlsx"

\* C21: validate_report never raises: on a path with a supported suffix
\* whose file is missing, zero bytes long or unparseable it returns
\* valid = FALSE with an error beginning "Error reading file", and the
\* classifier is not called.
C21_ReadError ==
    op.name = "validate_report" =>
        /\ ret.kind = "validation"
        /\ (Supported(file) /\ Unreadable(file)) =>
              /\ ~ret.valid
              /\ Len(ret.error) > Len("Error reading file")
              /\ SubSeq(ret.error, 1, Len("Error reading file")) = "Error reading file"
              /\ ~Called(calls, "detect_report_type")

C21_Witness ==
    /\ op.name = "validate_report"
    /\ file = File("empty.csv", "csv", "zero_bytes", EmptyFrame)
    /\ ~ret.valid
    /\ calls = <<"read_csv">>

\* C22: validate_report on a path ending in neither ".csv" nor ".xlsx"
\* returns valid = FALSE with the unsupported-format reason and reads
\* nothing: no reader, no emptiness check and no classifier is called.
C22_UnsupportedFormat ==
    (op.name = "validate_report" /\ ~Supported(file)) =>
        /\ ret = Invalid(UnsupportedFormat)
        /\ str_in("Unsupported file format", ret.error)
        /\ calls = <<>>

C22_Witness ==
    /\ op.name = "validate_report"
    /\ file = File("report.txt", "csv", "table", sample_rpt600_data)
    /\ ret.error = UnsupportedFormat
    /\ calls = <<>>

(***************************************************************************)
(* Further claims about the classifiers (checked under SpecClassify)       *)
(***************************************************************************)
\* the column names in lower case
Lowered == [i \in 1..Len(df.columns) |-> str_lower(df.columns[i].text)]
\* the (column, indicator) pairs in which one text contains the other
MatchingPairs(indicators, names) ==
    {p \in (1..Len(names)) \X (1..Len(indicators)) :
        \/ str_in(indicators[p[2]], names[p[1]])
        \/ str_in(names[p[1]], indicators[p[2]])}
\* the strong terms among the given ones that occur in at least one column
StrongTerms(terms, names) ==
    {t \in terms : \E i \in 1..Len(names) : str_in(t, names[i])}

\* C23: in the weighted classifier each family's score is the number of
\* (column, indicator) pairs with containment in either direction, plus 2
\* for each of the family's two strong terms that occurs in at least one
\* column; the bonus of a family is 0, 2 or 4 however many columns contain
\* a term.
C23_WeightedScore ==
    (Detected /\ app = "streamlit") =>
        LET names == Lowered
            pairs600 == Cardinality(MatchingPairs(rpt600_indicators_streamlit, names))
            pairs908 == Cardinality(MatchingPairs(rpt908_indicators_streamlit, names))
            score600 == rpt600_score_streamlit(df.columns)
            score908 == rpt908_score_streamlit(df.columns)
        IN  /\ score600 = pairs600 + 2 * Cardinality(StrongTerms({"payee", "commission"}, names))
            /\ score908 = pairs908 + 2 * Cardinality(StrongTerms({"cancellation", "refund"}, names))
            /\ score600 - pairs600 \in {0, 2, 4}
            /\ score908 - pairs908 \in {0, 2, 4}

\* two columns contain "payee"; the bonus for it is added once
C23_Witness ==
    /\ Detected /\ app = "streamlit"
    /\ df.columns = Labels(<<"Payee", "Commission", "Payee Number">>)
    /\ rpt600_score_streamlit(df.columns)
         = Cardinality(MatchingPairs(rpt600_indicators_streamlit, Lowered)) + 4

UpperChar(ch) ==
    IF \E i \in 1..26 : LowerChars[i] = ch
    THEN UpperChars[CHOOSE i \in 1..26 : LowerChars[i] = ch]
    ELSE ch
RECURSIVE str_upper(_)
str_upper(t) ==
    IF Len(t) = 0 THEN ""
    ELSE UpperChar(SubSeq(t, 1, 1)) \o str_upper(SubSeq(t, 2, Len(t)))
\* the same columns in another order or another letter case
Reversed(columns) == [i \in 1..Len(columns) |-> columns[Len(columns) + 1 - i]]
Rotated(columns) ==
    IF Len(columns) = 0 THEN columns ELSE Tail(columns) \o <<Head(columns)>>
UpperCased(columns) ==
    [i \in 1..Len(columns) |-> StrLabel(str_upper(columns[i].text))]
LowerCased(columns) ==
    [i \in 1..Len(columns) |-> StrLabel(str_lower(columns[i].text))]

\* C25: the result of detect_report_type depends only on the lower-cased
\* column names, not on their order: the columns reversed, rotated, in upper
\* case or in lower case are classified like the columns themselves.
C25_CaseAndOrder ==
    Detected =>
        /\ detect_report_type(app, Reversed(df.columns)) = ret.value
        /\ detect_report_type(app, Rotated(df.columns)) = ret.value
        /\ detect_report_type(app, UpperCased(df.columns)) = ret.value
        /\ detect_report_type(app, LowerCased(Reversed(df.columns))) = ret.value

C25_Witness ==
    /\ Detected /\ app = "main"
    /\ df.columns = Labels(<<"Cancellation_Reason", "Refund_Amount", "Dealer">>)
    /\ ret.value = "RPT908"
    /\ detect_report_type(app, UpperCased(Rotated(df.columns))) = "RPT908"

\* C27: the classifier of src/app/main.py and the one of streamlit_app.py
\* return the same report type on every set of column names.
C27_ClassifiersAgree ==
    Detected =>
        detect_report_type_main(df.columns) = detect_report_type_streamlit(df.columns)

(***************************************************************************)
(* Further claims about the workflow (checked under Spec)                  *)
(***************************************************************************)
\* C24: detect_report_type, validate_report, process_rpt600 and
\* process_rpt908 leave processed_reports unchanged and leave the dataset
\* they were given as it was (labels with their casing, column order,
\* cells); only execute_sop_workflow changes the log.
C24_Stateless ==
    [][/\ op'.name \in {"detect_report_type", "validate_report",
                        "process_rpt600", "process_rpt908"}
            => /\ processed_reports' = processed_reports
               /\ df' \in DataFrames \cup {EmptyFrame}
       /\ processed_reports' # processed_reports => ExecuteStep]_vars

\* a classification after the processor has logged a report
C24_Witness ==
    /\ op.name = "detect_report_type"
    /\ df = sample_rpt600_data
    /\ ret.value = "RPT600"
    /\ Len(processed_reports) = 1

\* C30: two runs on one processor never write to the same output filename,
\* so no stored workbook is overwritten by a later run.
C30_NoOverwrite ==
    [][\A name \in DOMAIN saved :
          name \in DOMAIN saved' /\ saved'[name] = saved[name]]_vars

(***************************************************************************)
(* Claims about the upload flows of main() (checked under SpecMain and     *)
(* SpecBatch)                                                              *)
(***************************************************************************)
\* C26: in the batch and the individual flow of streamlit_app.py, a file that
\* is valid under its own name is also valid as its temporary copy: it is
\* shown as valid, and no batch row of it says "Validation Failed".
C26_TempCopyValidates ==
    app = "streamlit" =>
       /\ (op.name = "show_file" /\ ValidOnItsOwn[op.upload]) => ret.valid
       /\ \A k \in 1..Len(batch.batch_results) :
              ValidOnItsOwn[batch.all_files[k]]
                 => batch.batch_results[k].Status # "Validation Failed"

\* the summarizers the last step called
Processors == {calls[k] : k \in 1..Len(calls)} \cap {"process_rpt600", "process_rpt908"}

\* C28: in the upload flows, execute_sop_workflow runs only for a file whose
\* validation was valid and with the type validation detected, so every
\* entry of processed_reports has a known type, one row or more, and the
\* status "completed".
C28_ValidatedBeforeExecute ==
    /\ \A k \in 1..Len(processed_reports) :
          /\ processed_reports[k].report_type \in {"RPT600", "RPT908"}
          /\ processed_reports[k].records_processed >= 1
          /\ processed_reports[k].status = "completed"
    /\ (op.name \in {"process_file", "batch_file"} /\ Processors # {}) =>
          LET validation_result == validate_report(app, file).ret
          IN  /\ validation_result.valid
              /\ Processors = {processor_of(validation_result.report_type)[1]}

\* a file of src/app/main.py was validated, processed on the click and logged
C28_Witness ==
    /\ app = "main"
    /\ op.name = "process_file"
    /\ Processors # {}
    /\ Len(processed_reports) >= 1

\* C29: a batch that has gone through its files is not gone through again:
\* one click on "Process All Files" runs the loop once.
C29_BatchRunsOnce == [][batch.pc = "done" => batch'.pc # "running"]_vars

====
